---- MODULE Spec2Model ----
(***************************************************************************)
(* supercollapser: the clause-minimisation engine of src/main.rs.          *)
(*                                                                         *)
(* A token (literal) is a Rust String.  The only operation that looks      *)
(* inside a token is flip(), which tests for the prefix "not " and either  *)
(* strips it or prepends it.  A token is therefore modelled as the         *)
(* sequence of the segments between its leading "not " prefixes: the       *)
(* string "not webrender" is <<"not", "webrender">>, and the string        *)
(* (os == "win") is the one-segment sequence <<"(os == \"win\")">>.        *)
(* A tokenset (clause) is a Vec<String>: a sequence of tokens.  An         *)
(* Option<T> is a sequence of length at most one.                          *)
(* Rust indexes from 0, the model from 1.                                  *)
(***************************************************************************)
EXTENDS Integers, Sequences, FiniteSets, TLC

VARIABLES
    rules,      \* collapse: `let rules = build_collapse_rules()`, the catalog in use
    tokensets,  \* collapse: the argument `tokensets: &mut Vec<Vec<String>>`
    input,      \* the value of `tokensets` when the current call of collapse began
    pc,         \* "scanning" inside 'top: loop, "converged" after `break`;
                \* "call" / "returned" for a single operator call
    steps,      \* number of `continue 'top` taken in the current call of collapse
    rerun,      \* TRUE once collapse has been called again on its own result
    op,         \* the operator that produced the last result
    ret,        \* the Option returned by that operator
    at          \* the loop indices at which that operator was called

vars == <<rules, tokensets, input, pc, steps, rerun, op, ret, at>>

\* ---------------------------------------------------------------- Option
None == <<>>
Some(v) == <<v>>

\* ---------------------------------------------------------------- tokens
OsMac == <<"(os == \"mac\")">>
VerOSX == <<"(version == \"OS X 10.10.5\")">>
E10s == <<"e10s">>
NotWebrender == <<"not", "webrender">>
ProcX86_64 == <<"(processor == \"x86_64\")">>
Bits64 == <<"(bits == 64)">>
OsWin == <<"(os == \"win\")">>
Ver61 == <<"(version == \"6.1.7601\")">>
ProcX86 == <<"(processor == \"x86\")">>
Bits32 == <<"(bits == 32)">>
Ver10 == <<"(version == \"10.0.15063\")">>
Webrender == <<"webrender">>
OsLinux == <<"(os == \"linux\")">>
VerUbuntu == <<"(version == \"Ubuntu 16.04\")">>
OsAndroid == <<"(os == \"android\")">>
NotE10s == <<"not", "e10s">>
\* tokens that no rule of the catalog mentions
Debug == <<"debug">>
NotDebug == <<"not", "debug">>

\* ---------------------------------------------------------------- CollapseRule
CollapseRule(prerequisites, alternatives) ==
    [prerequisites |-> prerequisites, alternatives |-> alternatives]

\* The built-in catalog, in the order of the source.
build_collapse_rules ==
    <<
      CollapseRule(<<OsMac>>, <<VerOSX>>),
      CollapseRule(<<OsMac>>, <<E10s>>),
      CollapseRule(<<OsMac>>, <<NotWebrender>>),
      CollapseRule(<<OsMac>>, <<ProcX86_64>>),
      CollapseRule(<<OsMac>>, <<Bits64>>),
      CollapseRule(<<OsWin, Ver61>>, <<E10s>>),
      CollapseRule(<<OsWin, Ver61>>, <<NotWebrender>>),
      CollapseRule(<<OsWin, Ver61>>, <<ProcX86>>),
      CollapseRule(<<OsWin, Ver61>>, <<Bits32>>),
      CollapseRule(<<OsWin, Ver10>>, <<E10s>>),
      CollapseRule(<<OsWin, Ver10>>, <<ProcX86_64>>),
      CollapseRule(<<OsWin, Ver10>>, <<Bits64>>),
      CollapseRule(<<OsWin, Webrender>>, <<Ver10>>),
      CollapseRule(<<OsWin>>, <<Ver61, Ver10>>),
      CollapseRule(<<OsLinux>>, <<VerUbuntu>>),
      CollapseRule(<<OsLinux, ProcX86_64>>, <<Bits64>>),
      CollapseRule(<<OsLinux, ProcX86>>, <<Bits32>>),
      CollapseRule(<<OsLinux, ProcX86>>, <<NotWebrender>>),
      CollapseRule(<<OsLinux>>, <<ProcX86_64, ProcX86>>),
      CollapseRule(<<OsLinux, Webrender>>, <<ProcX86_64>>),
      CollapseRule(<<OsLinux, Webrender>>, <<E10s>>),
      CollapseRule(<<OsAndroid>>, <<NotWebrender>>),
      CollapseRule(<<OsAndroid>>, <<NotE10s>>)
    >>

\* The two rules of the worked example in the comment above build_collapse_rules.
example_rules ==
    <<
      CollapseRule(<<OsWin, Ver61>>, <<NotWebrender>>),
      CollapseRule(<<OsWin>>, <<Ver61, Ver10>>)
    >>

\* ---------------------------------------------------------------- helpers
\* Vec::contains / iter().any(|t| t == token)
Contains(tokenset, token) == \E k \in 1..Len(tokenset) : tokenset[k] = token

match_prereqs(rule, tokenset) ==
    \A k \in 1..Len(rule.prerequisites) : Contains(tokenset, rule.prerequisites[k])

has_token(token, tokenset) == Contains(tokenset, token)

\* strip_token with its filter dropped.
strip_token_keep(token, tokenset) == tokenset

strip_token(token, tokenset) == SelectSeq(tokenset, LAMBDA t : t # token)

\* ---------------------------------------------------------------- try_collapse
\* try_collapse without the test that the rule has exactly one alternative.
try_collapse_any_alt(tokenset, rule) ==
    IF Len(rule.alternatives) = 0 THEN None
    ELSE IF ~match_prereqs(rule, tokenset) THEN None
    ELSE IF ~has_token(rule.alternatives[1], tokenset) THEN None
    ELSE Some(strip_token(rule.alternatives[1], tokenset))

try_collapse(tokenset, rule) ==
    IF Len(rule.alternatives) # 1 THEN None
    ELSE IF ~match_prereqs(rule, tokenset) THEN None
    ELSE IF ~has_token(rule.alternatives[1], tokenset) THEN None
    ELSE Some(strip_token(rule.alternatives[1], tokenset))

\* ---------------------------------------------------------------- flip
\* flip without its first branch: the prefix "not " is never stripped.
flip_only_negates(token) == <<"not">> \o token

\* token.find("not ") == Some(0): the token begins with the prefix "not ".
flip(token) ==
    IF Len(token) >= 2 /\ token[1] = "not"
    THEN Tail(token)
    ELSE <<"not">> \o token

\* The `for tok in a` loop of try_collapse_flip: k is the position of tok,
\* result and flipped are the loop's two locals.
RECURSIVE flip_loop(_, _, _, _, _)
flip_loop(a, b, k, result, flipped) ==
    IF k > Len(a) THEN Some(result)
    ELSE IF Contains(b, a[k]) THEN flip_loop(a, b, k + 1, Append(result, a[k]), flipped)
    ELSE IF ~flipped /\ Contains(b, flip(a[k])) THEN flip_loop(a, b, k + 1, result, TRUE)
    ELSE None

\* try_collapse_flip keeping the flipped token in the place of the token it
\* drops.
RECURSIVE flip_loop_push(_, _, _, _, _)
flip_loop_push(a, b, k, result, flipped) ==
    IF k > Len(a) THEN Some(result)
    ELSE IF Contains(b, a[k])
         THEN flip_loop_push(a, b, k + 1, Append(result, a[k]), flipped)
    ELSE IF ~flipped /\ Contains(b, flip(a[k]))
         THEN flip_loop_push(a, b, k + 1, Append(result, flip(a[k])), TRUE)
    ELSE None

try_collapse_flip_push(a, b) ==
    IF Len(a) # Len(b) THEN None
    ELSE flip_loop_push(a, b, 1, <<>>, FALSE)

try_collapse_flip(a, b) ==
    IF Len(a) # Len(b) THEN None
    ELSE flip_loop(a, b, 1, <<>>, FALSE)

\* ---------------------------------------------------------------- try_collapse2
\* remaining_alt returning the alternative it was given, not the other one.
remaining_alt_same(used_alt, rule) ==
    IF rule.alternatives[1] = used_alt THEN Some(rule.alternatives[1])
    ELSE IF rule.alternatives[2] = used_alt THEN Some(rule.alternatives[2])
    ELSE None

\* Called only after rule.alternatives.len() == 2 has been checked.
remaining_alt(used_alt, rule) ==
    IF rule.alternatives[1] = used_alt THEN Some(rule.alternatives[2])
    ELSE IF rule.alternatives[2] = used_alt THEN Some(rule.alternatives[1])
    ELSE None

\* The `for tok in a` loop of try_collapse2.  When tok is an alternative of the
\* rule and b does not hold the other alternative, neither branch of the
\* `if let` returns or continues: control falls to the end of the loop body,
\* tok is not pushed, and the loop goes on with matched unchanged.
RECURSIVE collapse2_loop(_, _, _, _, _, _)
collapse2_loop(a, b, rule, k, result, matched) ==
    IF k > Len(a) THEN Some(result)
    ELSE IF Contains(b, a[k])
         THEN collapse2_loop(a, b, rule, k + 1, Append(result, a[k]), matched)
    ELSE IF matched THEN None
    ELSE LET alt == remaining_alt(a[k], rule) IN
         IF alt # None
         THEN IF Contains(b, alt[1])
              THEN collapse2_loop(a, b, rule, k + 1, result, TRUE)
              ELSE collapse2_loop(a, b, rule, k + 1, result, matched)
         ELSE None

\* try_collapse2 without the test that a and b have the same length.
try_collapse2_any_len(a, b, rule) ==
    IF Len(rule.alternatives) # 2 THEN None
    ELSE IF ~match_prereqs(rule, a) THEN None
    ELSE IF ~match_prereqs(rule, b) THEN None
    ELSE collapse2_loop(a, b, rule, 1, <<>>, FALSE)

\* try_collapse2 without the two match_prereqs tests.
try_collapse2_no_prereqs(a, b, rule) ==
    IF Len(rule.alternatives) # 2 THEN None
    ELSE IF Len(a) # Len(b) THEN None
    ELSE collapse2_loop(a, b, rule, 1, <<>>, FALSE)

try_collapse2(a, b, rule) ==
    IF Len(rule.alternatives) # 2 THEN None
    ELSE IF Len(a) # Len(b) THEN None
    ELSE IF ~match_prereqs(rule, a) THEN None
    ELSE IF ~match_prereqs(rule, b) THEN None
    ELSE collapse2_loop(a, b, rule, 1, <<>>, FALSE)

\* ---------------------------------------------------------------- collapse
\* Vec::remove(i)
Remove(v, i) == SubSeq(v, 1, i - 1) \o SubSeq(v, i + 1, Len(v))

\* Loop indices are visited in lexicographic order (outer loop first).
LexLeq(s, t) ==
    \/ s = t
    \/ \E k \in 1..Len(s) : s[k] < t[k] /\ \A m \in 1..(k - 1) : s[m] = t[m]
\* The loops run from their last index down: the last success, not the first.
Last(S) == CHOOSE s \in S : \A t \in S : LexLeq(t, s)

First(S) == CHOOSE s \in S : \A t \in S : LexLeq(s, t)

\* The pair loops visiting only the pairs of neighbours (j = i - 1).
PairIndices_neighbours(ts) == {p \in (1..Len(ts)) \X (1..Len(ts)) : p[2] = p[1] - 1}

\* for i in 0..tokensets.len() { for j in 0..i { ... } }
PairIndices(ts) == {p \in (1..Len(ts)) \X (1..Len(ts)) : p[2] < p[1]}

\* The <<i, j>> at which the first pair loop finds try_collapse_flip succeed.
FlipHits(ts) ==
    {p \in PairIndices(ts) : try_collapse_flip(ts[p[1]], ts[p[2]]) # None}

\* The <<i, j, rule>> at which the second pair loop finds try_collapse2 succeed.
Rule2Hits(ts, rs) ==
    {t \in (1..Len(ts)) \X (1..Len(ts)) \X (1..Len(rs)) :
        /\ t[2] < t[1]
        /\ try_collapse2(ts[t[1]], ts[t[2]], rs[t[3]]) # None}

\* The third loop visiting the first clause only (for i in 0..1).
ReduceHits_first_clause(ts, rs) ==
    {t \in (1..Len(ts)) \X (1..Len(rs)) :
        t[1] = 1 /\ try_collapse(ts[t[1]], rs[t[2]]) # None}

\* The <<i, rule>> at which the third loop finds try_collapse succeed.
ReduceHits(ts, rs) ==
    {t \in (1..Len(ts)) \X (1..Len(rs)) : try_collapse(ts[t[1]], rs[t[2]]) # None}

\* The merge without tokensets.remove(i).
MergeInto_keep(ts, i, j, set) == [ts EXCEPT ![j] = set]

\* The merge with i and j exchanged: tokensets[i] = set; tokensets.remove(j).
MergeInto_swapped(ts, i, j, set) == Remove([ts EXCEPT ![i] = set], j)

\* tokensets[j] = set; tokensets.remove(i);
MergeInto(ts, i, j, set) == Remove([ts EXCEPT ![j] = set], i)

\* The first pair loop found try_collapse_flip succeed at p = <<i, j>>:
\* tokensets[j] = set; tokensets.remove(i); continue 'top.
FlipMerge(p) ==
    LET set == try_collapse_flip(tokensets[p[1]], tokensets[p[2]])
    IN /\ tokensets' = MergeInto(tokensets, p[1], p[2], set[1])
       /\ at' = p
       /\ ret' = set
       /\ op' = "try_collapse_flip"
       /\ steps' = steps + 1
       /\ UNCHANGED <<rules, input, pc, rerun>>

\* The second pair loop found try_collapse2 succeed at t = <<i, j, rule>>:
\* tokensets[j] = set; tokensets.remove(i); continue 'top.
RuleMerge(t) ==
    LET set == try_collapse2(tokensets[t[1]], tokensets[t[2]], rules[t[3]])
    IN /\ tokensets' = MergeInto(tokensets, t[1], t[2], set[1])
       /\ at' = t
       /\ ret' = set
       /\ op' = "try_collapse2"
       /\ steps' = steps + 1
       /\ UNCHANGED <<rules, input, pc, rerun>>

\* The third loop as a sweep: every reduction that matches is applied, clause
\* after clause, before 'top is continued.
RECURSIVE sweep(_, _)
sweep(ts, rs) ==
    LET reductions == ReduceHits(ts, rs) IN
    IF reductions = {} THEN ts
    ELSE LET t == First(reductions) IN
         sweep([ts EXCEPT ![t[1]] = try_collapse(ts[t[1]], rs[t[2]])[1]], rs)

Reduce_sweep(t) ==
    LET set == try_collapse(tokensets[t[1]], rules[t[2]])
    IN /\ tokensets' = sweep(tokensets, rules)
       /\ at' = t
       /\ ret' = set
       /\ op' = "try_collapse"
       /\ steps' = steps + 1
       /\ UNCHANGED <<rules, input, pc, rerun>>

\* The third loop leaving 'top after its first success (break for continue).
Reduce_then_break(t) ==
    LET set == try_collapse(tokensets[t[1]], rules[t[2]])
    IN /\ tokensets' = [tokensets EXCEPT ![t[1]] = set[1]]
       /\ at' = t
       /\ ret' = set
       /\ op' = "try_collapse"
       /\ steps' = steps + 1
       /\ pc' = "converged"
       /\ UNCHANGED <<rules, input, rerun>>

\* The third loop found try_collapse succeed at t = <<i, rule>>:
\* tokensets[i] = set; continue 'top.
Reduce(t) ==
    LET set == try_collapse(tokensets[t[1]], rules[t[2]])
    IN /\ tokensets' = [tokensets EXCEPT ![t[1]] = set[1]]
       /\ at' = t
       /\ ret' = set
       /\ op' = "try_collapse"
       /\ steps' = steps + 1
       /\ UNCHANGED <<rules, input, pc, rerun>>

\* All three loops ran to their end: break.
Converge ==
    /\ pc' = "converged"
    /\ UNCHANGED <<rules, tokensets, input, steps, rerun, op, ret, at>>

\* One iteration of 'top: loop with the single-clause loop placed before the
\* two pair loops.
TopIteration_reduce_first ==
    /\ pc = "scanning"
    /\ \E reductions \in {ReduceHits(tokensets, rules)} :
          IF reductions # {} THEN Reduce(First(reductions))
          ELSE \E flips \in {FlipHits(tokensets)} :
                  IF flips # {} THEN FlipMerge(First(flips))
                  ELSE \E merges \in {Rule2Hits(tokensets, rules)} :
                          IF merges # {} THEN RuleMerge(First(merges))
                          ELSE Converge

\* One iteration of 'top: loop.  The three loops run one after the other and
\* the first success ends the iteration.
TopIteration ==
    /\ pc = "scanning"
    /\ \E flips \in {FlipHits(tokensets)} :
          IF flips # {} THEN FlipMerge(First(flips))
          ELSE \E merges \in {Rule2Hits(tokensets, rules)} :
                  IF merges # {} THEN RuleMerge(First(merges))
                  ELSE \E reductions \in {ReduceHits(tokensets, rules)} :
                          IF reductions # {} THEN Reduce(First(reductions))
                          ELSE Converge

\* collapse is called a second time on the group it has just returned.
Rerun ==
    /\ pc = "converged"
    /\ ~rerun
    /\ rerun' = TRUE
    /\ pc' = "scanning"
    /\ input' = tokensets
    /\ steps' = 0
    /\ op' = "none"
    /\ ret' = None
    /\ at' = <<>>
    /\ UNCHANGED <<rules, tokensets>>

\* ---------------------------------------------------------------- inputs
MaxClauses == 3

\* The tokens of u at the positions in S, in the order of u.
RECURSIVE Pick(_, _, _)
Pick(u, S, k) ==
    IF k > Len(u) THEN <<>>
    ELSE (IF k \in S THEN <<u[k]>> ELSE <<>>) \o Pick(u, S, k + 1)

\* Every tokenset over the universe u with distinct tokens in the order of u,
\* the empty tokenset included.  The order of the tokens of a tokenset decides
\* the order of the tokens of a result and nothing else: the operators look a
\* token up with contains().
Clauses(u) == {Pick(u, S, 1) : S \in SUBSET (1..Len(u))}

\* main calls collapse on groups of at least one tokenset.
Groups(u) == UNION {[1..n -> Clauses(u)] : n \in 1..MaxClauses}

\* The two tokensets of the worked example in the comment above
\* build_collapse_rules.
example_tokensets ==
    << <<OsWin, Ver61, NotWebrender, E10s>>, <<OsWin, Ver10, E10s>> >>

\* A family of inputs: a catalog and the tokens its tokensets are drawn from.
Family(rs, u) == [rules |-> rs, universe |-> u]

Families ==
    { Family(example_rules, <<OsWin, Ver61, Ver10, NotWebrender>>),
      Family(build_collapse_rules, <<OsWin, Ver61, Ver10>>),
      Family(build_collapse_rules, <<OsWin, Ver61, Debug>>),
      Family(build_collapse_rules, <<OsWin, Ver61, E10s>>),
      Family(build_collapse_rules, <<OsMac, E10s, NotE10s>>),
      Family(build_collapse_rules, <<OsMac, E10s, NotWebrender>>),
      Family(build_collapse_rules, <<Debug, NotDebug, OsLinux>>) }

Init ==
    /\ \/ \E f \in Families : \E g \in Groups(f.universe) :
              rules = f.rules /\ tokensets = g
       \/ rules = example_rules /\ tokensets = example_tokensets
    /\ input = tokensets
    /\ pc = "scanning"
    /\ steps = 0
    /\ rerun = FALSE
    /\ op = "none"
    /\ ret = None
    /\ at = <<>>

Next == TopIteration \/ Rerun

Spec == Init /\ [][Next]_vars

\* collapse is sequential code without suspension points: an iteration of
\* 'top that can run does run.
FairSpec == Init /\ [][Next]_vars /\ WF_vars(TopIteration)

\* ---------------------------------------------------------------- collapse, as a function
\* The group collapse(tokensets) leaves in `tokensets` when the catalog is rs:
\* the same three loops as TopIteration, run until the break.
RECURSIVE collapse(_, _)
collapse(ts, rs) ==
    LET flips == FlipHits(ts) IN
    IF flips # {}
    THEN LET p == First(flips) IN
         collapse(MergeInto(ts, p[1], p[2], try_collapse_flip(ts[p[1]], ts[p[2]])[1]), rs)
    ELSE LET merges == Rule2Hits(ts, rs) IN
         IF merges # {}
         THEN LET t == First(merges) IN
              collapse(MergeInto(ts, t[1], t[2],
                                 try_collapse2(ts[t[1]], ts[t[2]], rs[t[3]])[1]), rs)
         ELSE LET reductions == ReduceHits(ts, rs) IN
              IF reductions # {}
              THEN LET t == First(reductions) IN
                   collapse([ts EXCEPT ![t[1]] = try_collapse(ts[t[1]], rs[t[2]])[1]], rs)
              ELSE ts

\* ---------------------------------------------------------------- rule order
\* collapse run with the rules of the built-in catalog in another order: the
\* catalog with one rule moved to the front.
MoveToFront(rs, p) == <<rs[p]>> \o SubSeq(rs, 1, p - 1) \o SubSeq(rs, p + 1, Len(rs))

Orders == {MoveToFront(build_collapse_rules, p) : p \in 1..Len(build_collapse_rules)}

OrderUniverses ==
    { <<OsWin, Webrender, Ver10, E10s>>,
      <<OsWin, Ver61, Ver10>>,
      <<OsLinux, ProcX86_64, Bits64>> }

MaxOrderClauses == 2

OrderGroups(u) == UNION {[1..n -> Clauses(u)] : n \in 1..MaxOrderClauses}

InitOrder ==
    /\ rules \in Orders
    /\ \E u \in OrderUniverses : tokensets \in OrderGroups(u)
    /\ input = tokensets
    /\ pc = "scanning"
    /\ steps = 0
    /\ rerun = FALSE
    /\ op = "none"
    /\ ret = None
    /\ at = <<>>

SpecOrder == InitOrder /\ [][TopIteration]_vars

\* ---------------------------------------------------------------- clause order
\* collapse on the groups of at most MaxOrderClauses clauses of each family:
\* the runs that are compared with the runs on the other orderings of the same
\* clauses.
InitClauseOrder ==
    /\ \E f \in Families : rules = f.rules /\ tokensets \in OrderGroups(f.universe)
    /\ input = tokensets
    /\ pc = "scanning"
    /\ steps = 0
    /\ rerun = FALSE
    /\ op = "none"
    /\ ret = None
    /\ at = <<>>

SpecClauseOrder == InitClauseOrder /\ [][TopIteration]_vars

\* ---------------------------------------------------------------- single calls
\* The three merge operators called once each on arguments drawn from a small
\* universe: tokensets = <<a, b>> are the two tokensets and rules = <<rule>> is
\* the rule of the call.
MaxLen == 3

Range(s) == {s[k] : k \in 1..Len(s)}

OpUniverse == <<OsWin, OsMac, Ver61, Ver10, E10s, NotE10s>>

\* The rules of the built-in catalog that mention tokens of OpUniverse only.
OpRules ==
    {build_collapse_rules[r] : r \in
        {r \in 1..Len(build_collapse_rules) :
            Range(build_collapse_rules[r].prerequisites)
                \cup Range(build_collapse_rules[r].alternatives)
                    \subseteq Range(OpUniverse)}}

\* a: the tokensets of at most MaxLen distinct tokens, in every order (the
\* operators scan a front to back).
ArgsA ==
    {s \in UNION {[1..n -> Range(OpUniverse)] : n \in 0..MaxLen} :
        \A k, m \in 1..Len(s) : s[k] = s[m] => k = m}

\* b: the operators read b through contains() and len() only, so one order of
\* each set of tokens is enough.
ArgsB == {c \in Clauses(OpUniverse) : Len(c) <= MaxLen}

InitOps ==
    /\ \E r \in OpRules : rules = <<r>>
    /\ \E a \in ArgsA : \E b \in ArgsB : tokensets = <<a, b>>
    /\ input = tokensets
    /\ pc = "call"
    /\ steps = 0
    /\ rerun = FALSE
    /\ op = "none"
    /\ ret = None
    /\ at = <<>>

Call_try_collapse ==
    /\ pc = "call"
    /\ pc' = "returned"
    /\ op' = "try_collapse"
    /\ ret' = try_collapse(tokensets[1], rules[1])
    /\ UNCHANGED <<rules, tokensets, input, steps, rerun, at>>

Call_try_collapse_flip ==
    /\ pc = "call"
    /\ pc' = "returned"
    /\ op' = "try_collapse_flip"
    /\ ret' = try_collapse_flip(tokensets[1], tokensets[2])
    /\ UNCHANGED <<rules, tokensets, input, steps, rerun, at>>

Call_try_collapse2 ==
    /\ pc = "call"
    /\ pc' = "returned"
    /\ op' = "try_collapse2"
    /\ ret' = try_collapse2(tokensets[1], tokensets[2], rules[1])
    /\ UNCHANGED <<rules, tokensets, input, steps, rerun, at>>

NextOps == Call_try_collapse \/ Call_try_collapse_flip \/ Call_try_collapse2

SpecOps == InitOps /\ [][NextOps]_vars

\* ---------------------------------------------------------------- main: tokens of a line
\* main splits the condition of a line at " and " and turns each piece into a
\* token: a piece that contains "==" and does not begin with '(' is put
\* between parentheses.  A piece is written like a token, as the segments
\* between its leading "not " prefixes.
OsWinBare == <<"os == \"win\"">>
NotOsWin == <<"not", "(os == \"win\")">>
NotOsWinBare == <<"not", "os == \"win\"">>

Pieces == <<E10s, NotE10s, OsWin, OsWinBare, NotOsWin, NotOsWinBare, Debug>>

\* The text of a piece: its segments with "not " put back between them.
RECURSIVE Text(_)
Text(t) == IF Len(t) = 1 THEN t[1] ELSE t[1] \o " " \o Text(Tail(t))

\* The segments of the model that contain "==": the equality tokens of the
\* catalog, the bare equality and the texts main puts between parentheses.
EqualitySegments ==
    {t[1] : t \in {OsMac, VerOSX, ProcX86_64, Bits64, OsWin, Ver61, ProcX86, Bits32,
                   Ver10, OsLinux, VerUbuntu, OsAndroid, OsWinBare}}
        \cup {"(" \o Text(t) \o ")" : t \in {NotOsWin, NotOsWinBare}}

\* The segments of the model that begin with '('.
ParenSegments == EqualitySegments \ {OsWinBare[1]}

\* t.contains("==")
contains_eq(t) == \E k \in 1..Len(t) : t[k] \in EqualitySegments

\* t.chars().next() == Some('(')
starts_with_paren(t) == t[1] \in ParenSegments

\* let mut parensized = String::from("("); push_str(t); push(')')
parensized(t) == <<"(" \o Text(t) \o ")">>

\* The closure of main with its first branch dropped: every piece is kept as
\* it is written.
tokenize_raw(s) == s

\* The closure main maps over the pieces of a line.
tokenize(s) ==
    IF contains_eq(s) /\ ~starts_with_paren(s) THEN parensized(s) ELSE s

\* The tokensets main collects from two lines and the flip-merge of the two:
\* input = <<pieces of the first line, pieces of the second line>>.
PiecesA ==
    {s \in UNION {[1..n -> Range(Pieces)] : n \in 1..MaxLen} :
        \A k, m \in 1..Len(s) : s[k] = s[m] => k = m}

PiecesB == {c \in Clauses(Pieces) : Len(c) \in 1..MaxLen}

InitFlip ==
    /\ rules = build_collapse_rules
    /\ \E a \in PiecesA : \E b \in PiecesB : input = <<a, b>>
    /\ tokensets = <<>>
    /\ pc = "collect"
    /\ steps = 0
    /\ rerun = FALSE
    /\ op = "none"
    /\ ret = None
    /\ at = <<>>

\* tokensets.push(tokens), for each of the two lines.
Collect ==
    /\ pc = "collect"
    /\ tokensets' = [n \in 1..Len(input) |->
                        [k \in 1..Len(input[n]) |-> tokenize(input[n][k])]]
    /\ pc' = "call"
    /\ UNCHANGED <<rules, input, steps, rerun, op, ret, at>>

NextFlip == Collect \/ Call_try_collapse_flip

SpecFlip == InitFlip /\ [][NextFlip]_vars

\* ================================================================ properties
\* Helpers of the properties below; none of them is used by the model above.
TokensOf(ts) == UNION {Range(ts[k]) : k \in 1..Len(ts)}
Without(s, token) == SelectSeq(s, LAMBDA t : t # token)
Absent(a, b) == {k \in 1..Len(a) : a[k] \notin Range(b)}
IsNegationOf(s, t) == s = <<"not">> \o t \/ t = <<"not">> \o s
ArgA == tokensets[1]
ArgB == tokensets[2]
ArgRule == rules[1]
OtherAlternative(rule, t) ==
    IF rule.alternatives[1] = t THEN rule.alternatives[2] ELSE rule.alternatives[1]

\* C2: try_collapse2 fails whenever it meets a token t of a that is absent from
\* b, unless no substitution has been used yet, t is one of the rule's two
\* alternatives and b contains the other one: a call that succeeds has met at
\* most one token of a absent from b, and that token is an alternative whose
\* partner is in b.
C2_FailsWithoutOtherAlternative ==
    (pc = "returned" /\ op = "try_collapse2" /\ ret # None) =>
        /\ Cardinality(Absent(ArgA, ArgB)) <= 1
        /\ \A k \in Absent(ArgA, ArgB) :
              /\ ArgA[k] \in Range(ArgRule.alternatives)
              /\ OtherAlternative(ArgRule, ArgA[k]) \in Range(ArgB)

\* C5: for a rule with two alternatives V1, V2, try_collapse2 returns no match
\* when a or b lacks a prerequisite of the rule, and when both hold every
\* prerequisite, a holds V1, b holds V2 and the two agree on every other token,
\* it returns a without V1.
C5_RuleGuidedMerge ==
    (pc = "returned" /\ op = "try_collapse2" /\ Len(ArgRule.alternatives) = 2) =>
        LET P == Range(ArgRule.prerequisites)
            A == Range(ArgA)
            B == Range(ArgB)
        IN /\ (~(P \subseteq A) \/ ~(P \subseteq B)) => ret = None
           /\ \A V1 \in Range(ArgRule.alternatives) :
                LET V2 == OtherAlternative(ArgRule, V1)
                IN (/\ P \subseteq A /\ P \subseteq B
                    /\ V1 # V2
                    /\ V1 \in A /\ V1 \notin B
                    /\ V2 \in B /\ V2 \notin A
                    /\ A \ {V1} = B \ {V2})
                   => ret = Some(Without(ArgA, V1))

C5_Witness ==
    /\ pc = "returned" /\ op = "try_collapse2"
    /\ ArgRule = CollapseRule(<<OsWin>>, <<Ver61, Ver10>>)
    /\ ArgA = <<OsWin, E10s, Ver10>>
    /\ Range(ArgB) = {OsWin, E10s, Ver61}
    /\ ret = Some(<<OsWin, E10s>>)

\* C6: try_collapse_flip returns no match for tokensets of different size and
\* for equal-size tokensets in which two or more tokens of a are absent from b;
\* when a and b differ in exactly one token and the two differing tokens are a
\* flag and its "not " form (either way round), it returns a without that token.
C6_FlipMerge ==
    (pc = "returned" /\ op = "try_collapse_flip") =>
        /\ Len(ArgA) # Len(ArgB) => ret = None
        /\ Cardinality(Absent(ArgA, ArgB)) >= 2 => ret = None
        /\ \A x \in Range(ArgA) : \A y \in Range(ArgB) :
              (/\ IsNegationOf(x, y)
               /\ x \notin Range(ArgB) /\ y \notin Range(ArgA)
               /\ Range(ArgA) \ {x} = Range(ArgB) \ {y})
              => ret = Some(Without(ArgA, x))

C6_Witness ==
    /\ pc = "returned" /\ op = "try_collapse_flip"
    /\ ArgA = <<OsWin, E10s, Ver61>>
    /\ Range(ArgB) = {OsWin, Ver61, NotE10s}
    /\ ret = Some(<<OsWin, Ver61>>)

\* C7: try_collapse returns the tokenset without the rule's alternative when
\* the rule has exactly one alternative and the tokenset holds every
\* prerequisite and that alternative (every other token is kept, in order), and
\* returns no match in every other case.
C7_SingleClauseReduction ==
    (pc = "returned" /\ op = "try_collapse") =>
        LET fires == /\ Len(ArgRule.alternatives) = 1
                     /\ Range(ArgRule.prerequisites) \subseteq Range(ArgA)
                     /\ ArgRule.alternatives[1] \in Range(ArgA)
        IN IF fires
           THEN /\ ret = Some(Without(ArgA, ArgRule.alternatives[1]))
                /\ Len(ret[1]) = Len(ArgA) - 1
           ELSE ret = None

C7_Witness ==
    /\ pc = "returned" /\ op = "try_collapse"
    /\ ArgRule = CollapseRule(<<OsMac>>, <<E10s>>)
    /\ ArgA = <<OsMac, Ver61, E10s>>
    /\ ret = Some(<<OsMac, Ver61>>)

\* ---------------------------------------------------------------- semantics
\* A configuration is the set of the atoms (tokens without "not ") that are
\* true in it; a rule holds in it when its prerequisites being true makes
\* exactly one of its alternatives true.
RECURSIVE Atom(_)
Atom(t) == IF Len(t) >= 2 /\ t[1] = "not" THEN Atom(Tail(t)) ELSE t

RECURSIVE Holds(_, _)
Holds(t, c) == IF Len(t) >= 2 /\ t[1] = "not" THEN ~Holds(Tail(t), c) ELSE t \in c

RuleHolds(rule, c) ==
    (\A p \in Range(rule.prerequisites) : Holds(p, c))
        => Cardinality({k \in 1..Len(rule.alternatives) : Holds(rule.alternatives[k], c)}) = 1

AllAtoms ==
    {Atom(t) : t \in TokensOf(<<OpUniverse, <<Debug>>>>)
                       \cup UNION {Range(build_collapse_rules[r].prerequisites)
                                     \cup Range(build_collapse_rules[r].alternatives) :
                                   r \in 1..Len(build_collapse_rules)}}

\* Every configuration over AllAtoms in which every rule of rs holds.
ConfigurationSpace(rs) ==
    {c \in SUBSET AllAtoms : \A r \in 1..Len(rs) : RuleHolds(rs[r], c)}

InputFamilies ==
    Families \cup {Family(example_rules, <<OsWin, Ver61, Ver10, NotWebrender, E10s>>)}

SpaceOfCatalog ==
    [rs \in {f.rules : f \in InputFamilies} |-> ConfigurationSpace(rs)]

\* The configuration space of each family's catalog, seen through the atoms of
\* the family's tokens (a tokenset of the family reads no other atom).
SpaceOf ==
    [f \in InputFamilies |->
        LET atoms == {Atom(t) : t \in Range(f.universe)}
        IN {c \cap atoms : c \in SpaceOfCatalog[f.rules]}]

Satisfies(c, ts) ==
    \E k \in 1..Len(ts) : \A t \in Range(ts[k]) : Holds(t, c)

\* The configurations of the family of the current input that satisfy at least
\* one tokenset of ts.
Denotation(ts) ==
    LET f == CHOOSE f \in InputFamilies :
                 f.rules = rules /\ TokensOf(input) \subseteq Range(f.universe)
    IN {c \in SpaceOf[f] : Satisfies(c, ts)}

\* C1: once collapse has converged, the configurations that satisfy at least
\* one tokenset of the group are those that satisfied at least one tokenset of
\* its input (over the configurations in which every rule of the catalog holds).
C1_Equivalence ==
    pc = "converged" => Denotation(tokensets) = Denotation(input)

\* ---------------------------------------------------------------- driver
RECURSIVE TotalTokens(_)
TotalTokens(ts) == IF ts = <<>> THEN 0 ELSE Len(ts[1]) + TotalTokens(Tail(ts))

\* The largest number of tokens in a tokenset of ts.
MaxTokens(ts) ==
    IF ts = <<>> THEN 0
    ELSE CHOOSE n \in {Len(ts[k]) : k \in 1..Len(ts)} :
             \A k \in 1..Len(ts) : Len(ts[k]) <= n

\* C3: collapse reaches the converged state, and every successful step makes
\* the number of tokensets or the total number of tokens strictly smaller.
C3_Termination ==
    /\ <>(pc = "converged")
    /\ [][steps' = steps + 1 =>
            \/ Len(tokensets') < Len(tokensets)
            \/ TotalTokens(tokensets') < TotalTokens(tokensets)]_vars

C3_Witness ==
    /\ pc = "converged" /\ ~rerun
    /\ steps = 3
    /\ op = "try_collapse_flip"

\* C4: with the catalog of the two rules of the worked example, the example's
\* group is first reduced by the single-clause rule (dropping "not webrender"
\* from its first tokenset), then its two tokensets are merged by the version
\* rule into { (os == "win"), e10s }, and that is the converged result.
C4_EndToEnd ==
    (rules = example_rules /\ input = example_tokensets /\ ~rerun) =>
        /\ steps \in 0..2
        /\ steps = 0 => tokensets = example_tokensets /\ pc = "scanning"
        /\ steps = 1 =>
              /\ op = "try_collapse"
              /\ tokensets = << <<OsWin, Ver61, E10s>>, <<OsWin, Ver10, E10s>> >>
              /\ pc = "scanning"
        /\ steps = 2 =>
              /\ op = "try_collapse2"
              /\ tokensets = << <<OsWin, E10s>> >>

C4_Witness ==
    /\ rules = example_rules /\ input = example_tokensets /\ ~rerun
    /\ pc = "converged"
    /\ steps = 2
    /\ tokensets = << <<OsWin, E10s>> >>

\* The tokens the catalog knows: those its rules mention.
KnownTokens(rs) ==
    UNION {Range(rs[r].prerequisites) \cup Range(rs[r].alternatives) : r \in 1..Len(rs)}

\* C8: when a tokenset of the input holds a token outside the known vocabulary,
\* collapse performs no merge or reduction and leaves the group as it was.
C8_UnrecognizedLiteralFailSafe ==
    ~(TokensOf(input) \subseteq KnownTokens(rules)) =>
        steps = 0 /\ tokensets = input

\* C9: collapse called again on a group it has converged on performs no merge
\* or reduction and leaves the group unchanged.
C9_Idempotence ==
    rerun => steps = 0 /\ tokensets = input /\ op = "none"

C9_Witness ==
    /\ rerun /\ pc = "converged"
    /\ Len(tokensets) = 2
    /\ tokensets = input

\* C10: the number of successful merge applications is at most n * k, for an
\* input of n tokensets of at most k tokens each.
C10_Bound ==
    steps <= Len(input) * MaxTokens(input)

\* C10 as amended: at most n * k when k >= 1, and at most n - 1 when k = 0
\* (n empty tokensets are merged into one by n - 1 flip-merges).
C10_BoundAmended ==
    steps <= IF MaxTokens(input) = 0 THEN Len(input) - 1
             ELSE Len(input) * MaxTokens(input)

C10_Witness ==
    /\ pc = "converged" /\ ~rerun
    /\ MaxTokens(input) = 0
    /\ Len(input) = MaxClauses
    /\ steps = Len(input) - 1

\* ---------------------------------------------------------------- orders
\* A group as a set of clauses, each clause as the set of its tokens.
ClauseSets(ts) == {Range(ts[k]) : k \in 1..Len(ts)}

SingleAlternative(rs) == SelectSeq(rs, LAMBDA r : Len(r.alternatives) = 1)

\* C11: under every order of the rules of the built-in catalog, collapse
\* converges to the same set of clauses as under the catalog's own order.
C11_RuleOrder ==
    pc = "converged" =>
        ClauseSets(tokensets) = ClauseSets(collapse(input, build_collapse_rules))

\* C11 as amended: the same, for the orders that keep the single-alternative
\* rules in the relative order they have in the catalog.
C11_RuleOrderAmended ==
    (/\ pc = "converged"
     /\ SingleAlternative(rules) = SingleAlternative(build_collapse_rules)) =>
        ClauseSets(tokensets) = ClauseSets(collapse(input, build_collapse_rules))

\* The rule (os == "linux") => [x86_64, x86] is tried first, and the two
\* clauses of the group have been merged by the rule on the Windows versions.
C11_Witness ==
    /\ pc = "converged"
    /\ rules = MoveToFront(build_collapse_rules, 19)
    /\ rules # build_collapse_rules
    /\ SingleAlternative(rules) = SingleAlternative(build_collapse_rules)
    /\ input = << <<OsWin, Ver61>>, <<OsWin, Ver10>> >>
    /\ op = "try_collapse2"
    /\ tokensets = << <<OsWin>> >>

\* ---------------------------------------------------------------- fixed point
\* No single-clause reduction matches any clause of ts under any rule.
NoReduction(ts) ==
    \A i \in 1..Len(ts) : \A r \in 1..Len(rules) : try_collapse(ts[i], rules[r]) = None

\* Neither flip-merge nor any rule-guided merge matches (a, b), in this order.
NoMerge(a, b) ==
    /\ try_collapse_flip(a, b) = None
    /\ \A r \in 1..Len(rules) : try_collapse2(a, b, rules[r]) = None

\* C12: when collapse has stopped, no single-clause reduction matches any
\* clause and no pairwise merge matches any two distinct clauses of the group,
\* whichever of the two is the first argument.
C12_FixedPoint ==
    pc = "converged" =>
        /\ NoReduction(tokensets)
        /\ \A i, j \in 1..Len(tokensets) :
              i # j => NoMerge(tokensets[i], tokensets[j])

\* C12 as amended: the same, for the pairs in the order collapse tries them,
\* (clause[i], clause[j]) with j < i.
C12_FixedPointAmended ==
    pc = "converged" =>
        /\ NoReduction(tokensets)
        /\ \A i, j \in 1..Len(tokensets) :
              j < i => NoMerge(tokensets[i], tokensets[j])

\* collapse has stopped after at least one step on a group of three clauses
\* of the same size: every pair was a candidate for both pairwise merges.
C12_Witness ==
    /\ pc = "converged" /\ ~rerun
    /\ steps >= 1
    /\ Len(tokensets) = 3
    /\ Len(tokensets[1]) = 2 /\ Len(tokensets[2]) = 2 /\ Len(tokensets[3]) = 2

\* ---------------------------------------------------------------- driver steps
\* A step of collapse that changed the group (a `continue 'top`).
Stepped == steps' = steps + 1

PairwiseOp == {"try_collapse_flip", "try_collapse2"}

\* Some pairwise merge matches some pair (clause[i], clause[j]) with j < i.
SomeMerge(ts) ==
    \E i, j \in 1..Len(ts) : j < i /\ ~NoMerge(ts[i], ts[j])

\* C13: a single-clause reduction is applied only in a state where no pairwise
\* merge matches any pair (clause[i], clause[j]) with j < i, and in a scanning
\* state where some pairwise merge matches, the next step is a pairwise merge.
C13_PairwisePriority ==
    [][/\ (Stepped /\ op' = "try_collapse") => ~SomeMerge(tokensets)
       /\ (pc = "scanning" /\ SomeMerge(tokensets)) =>
              /\ Stepped
              /\ op' \in PairwiseOp
              /\ Len(tokensets') = Len(tokensets) - 1]_vars

\* A single-clause reduction has been applied after a pairwise merge, on a
\* group that still holds two clauses.
C13_Witness ==
    /\ ~rerun
    /\ op = "try_collapse"
    /\ steps >= 2
    /\ Len(input) = 3
    /\ Len(tokensets) = 2

\* C14: a pairwise merge of (clause[i], clause[j]), j < i, overwrites clause[j]
\* with the merged clause and removes clause[i]; every other clause keeps its
\* content and the surviving clauses keep their order, so the group has one
\* clause fewer; collapse goes on scanning.
C14_PairwiseMergeEffect ==
    [][(Stepped /\ op' \in PairwiseOp) =>
          LET i == at'[1]
              j == at'[2]
          IN /\ 1 <= j /\ j < i /\ i <= Len(tokensets)
             /\ ret' # None
             /\ \/ ret' = try_collapse_flip(tokensets[i], tokensets[j])
                \/ \E r \in 1..Len(rules) :
                      ret' = try_collapse2(tokensets[i], tokensets[j], rules[r])
             /\ Len(tokensets') = Len(tokensets) - 1
             /\ tokensets'[j] = ret'[1]
             /\ \A k \in 1..(i - 1) : k # j => tokensets'[k] = tokensets[k]
             /\ \A k \in (i + 1)..Len(tokensets) : tokensets'[k - 1] = tokensets[k]
             /\ pc' = "scanning"]_vars

\* The first and the last of three clauses have been merged: the clause
\* between them is still in its place, after the merged clause.
C14_Witness ==
    /\ ~rerun
    /\ steps = 1
    /\ op \in PairwiseOp
    /\ at[1] = 3 /\ at[2] = 1
    /\ Len(input) = 3
    /\ Len(tokensets) = 2
    /\ tokensets[1] = ret[1]
    /\ tokensets[1] # input[1]
    /\ tokensets[2] = input[2]

\* ---------------------------------------------------------------- scan order
\* The pair <<i, j>> is visited before the pair <<k, m>>: i increasing, and
\* for each i, j increasing.
Before(p, q) == p[1] < q[1] \/ (p[1] = q[1] /\ p[2] < q[2])

Pairs(ts) == {p \in (1..Len(ts)) \X (1..Len(ts)) : p[2] < p[1]}

\* The pair of P that is visited first.
FirstPair(P) == CHOOSE p \in P : \A q \in P : q = p \/ Before(p, q)

FlipPairs(ts) == {p \in Pairs(ts) : try_collapse_flip(ts[p[1]], ts[p[2]]) # None}

RulePairs(ts) ==
    {p \in Pairs(ts) :
        \E r \in 1..Len(rules) : try_collapse2(ts[p[1]], ts[p[2]], rules[r]) # None}

\* C15: the pair that a pairwise merge step merges is the first pair, with i
\* increasing and j increasing from 0 to i-1, on which flip-merge or some
\* rule-guided merge succeeds.
C15_PairScanOrder ==
    [][(Stepped /\ op' \in PairwiseOp) =>
          <<at'[1], at'[2]>>
              = FirstPair(FlipPairs(tokensets) \cup RulePairs(tokensets))]_vars

\* C15 as amended: flip-merge is attempted on every pair before any
\* rule-guided merge is attempted on any pair.  The merged pair is the first
\* pair on which flip-merge succeeds, if there is one; otherwise it is the
\* first pair on which some rule-guided merge succeeds, merged by the first
\* rule of the catalog that succeeds on it.
C15_PairScanOrderAmended ==
    [][(Stepped /\ op' \in PairwiseOp) =>
          IF FlipPairs(tokensets) # {}
          THEN /\ op' = "try_collapse_flip"
               /\ at' = FirstPair(FlipPairs(tokensets))
          ELSE /\ op' = "try_collapse2"
               /\ <<at'[1], at'[2]>> = FirstPair(RulePairs(tokensets))
               /\ ret' = try_collapse2(tokensets[at'[1]], tokensets[at'[2]], rules[at'[3]])
               /\ \A r \in 1..(at'[3] - 1) :
                     try_collapse2(tokensets[at'[1]], tokensets[at'[2]], rules[r]) = None]_vars

\* The third clause has been flip-merged although a rule-guided merge matches
\* the second and the first clause, which are visited before it.
C15_Witness ==
    /\ ~rerun
    /\ steps = 1
    /\ op = "try_collapse_flip"
    /\ at[1] = 3
    /\ Len(input) = 3
    /\ \E r \in 1..Len(rules) : try_collapse2(input[2], input[1], rules[r]) # None

\* ---------------------------------------------------------------- single-clause loop
\* C16: once the driver has begun to apply single-clause reductions, it
\* performs no pairwise merge while a single-clause reduction still matches
\* some clause: the reductions are applied in one sweep.
C16_SingleClauseSweep ==
    [][(op = "try_collapse" /\ Stepped /\ op' \in PairwiseOp)
          => NoReduction(tokensets)]_vars

\* C16 as amended: when no pairwise merge fires, the driver applies one
\* single-clause reduction, the first rule that matches the first clause that
\* some rule matches, which removes one token from that clause and leaves the
\* other clauses alone; it then restarts pair scanning at once, so that a
\* pairwise merge that matches is the next step, whether or not a
\* single-clause reduction still matches.
C16_OneReductionPerScan ==
    [][/\ (Stepped /\ op' = "try_collapse") =>
              LET i == at'[1]
                  r == at'[2]
              IN /\ ret' = try_collapse(tokensets[i], rules[r])
                 /\ ret' # None
                 /\ \A k \in 1..(i - 1) : \A q \in 1..Len(rules) :
                       try_collapse(tokensets[k], rules[q]) = None
                 /\ \A q \in 1..(r - 1) : try_collapse(tokensets[i], rules[q]) = None
                 /\ tokensets' = [tokensets EXCEPT ![i] = ret'[1]]
                 /\ Len(tokensets'[i]) = Len(tokensets[i]) - 1
                 /\ pc' = "scanning"
       /\ (op = "try_collapse" /\ pc = "scanning" /\ SomeMerge(tokensets)) =>
              Stepped /\ op' \in PairwiseOp]_vars

\* One reduction has made the two clauses equal and they have been merged at
\* once, although (os == "mac") => not webrender matched both of them.
C16_Witness ==
    /\ ~rerun
    /\ rules = build_collapse_rules
    /\ input = << <<OsMac, E10s, NotWebrender>>, <<OsMac, NotWebrender>> >>
    /\ steps = 2
    /\ op = "try_collapse_flip"
    /\ tokensets = << <<OsMac, NotWebrender>> >>
    /\ ~NoReduction(tokensets)

\* ---------------------------------------------------------------- flip-merge tokens
\* A token of the equality form: its text contains "==".
IsEquality(t) == \E k \in 1..Len(t) : t[k] \in EqualitySegments

\* The tokens of a that a successful merge of a left out of its result.
Dropped(a, result) == Range(a) \ Range(result)

C18_OnlyRemoved ==
    /\ [](/\ Len(tokensets) <= Len(input)
          /\ \A k \in 1..Len(tokensets) : \E m \in 1..Len(input) :
                Range(tokensets[k]) \subseteq Range(input[m]))
    /\ [][/\ Len(tokensets') <= Len(tokensets)
          /\ (Stepped /\ op' \in PairwiseOp) =>
                Range(ret'[1]) \subseteq
                    Range(tokensets[at'[1]]) \cap Range(tokensets[at'[2]])
          /\ (Stepped /\ op' = "try_collapse") =>
                /\ Range(ret'[1]) \subseteq Range(tokensets[at'[1]])
                /\ Cardinality(Dropped(tokensets[at'[1]], ret'[1])) = 1]_vars

\* collapse has converged on a single clause that is none of the clauses of
\* its input of three: it holds fewer tokens than the clause it comes from.
C18_Witness ==
    /\ pc = "converged" /\ ~rerun
    /\ Len(input) = 3
    /\ Len(tokensets) = 1
    /\ tokensets[1] # <<>>
    /\ \A m \in 1..Len(input) : Range(tokensets[1]) # Range(input[m])

\* ---------------------------------------------------------------- clause order
\* The orderings of n clauses.
Perms(n) == {f \in [1..n -> 1..n] : \A k, m \in 1..n : f[k] = f[m] => k = m}

Permuted(ts, f) == [k \in 1..Len(ts) |-> ts[f[k]]]

\* C19: collapse converges to the same set of clauses on every ordering of the
\* clauses of its input.
C19_ClauseOrder ==
    pc = "converged" =>
        \A f \in Perms(Len(input)) :
            ClauseSets(collapse(Permuted(input, f), rules)) = ClauseSets(tokensets)

\* C19 as amended: two orderings of the input on neither of which collapse
\* performs a pairwise merge converge to the same set of clauses.
C19_ClauseOrderWithoutMerge ==
    (pc = "converged" /\ Len(tokensets) = Len(input)) =>
        \A f \in Perms(Len(input)) :
            \E other \in {collapse(Permuted(input, f), rules)} :
                Len(other) = Len(input) => ClauseSets(other) = ClauseSets(tokensets)

\* collapse has reduced both clauses of a group of two without merging them,
\* and does not merge them on the other ordering either.
C19_Witness ==
    /\ pc = "converged"
    /\ Len(input) = 2
    /\ Len(tokensets) = 2
    /\ steps >= 2
    /\ tokensets[1] # input[1]
    /\ tokensets[2] # input[2]
    /\ \A f \in Perms(2) : Len(collapse(Permuted(input, f), rules)) = 2
====
